---- MODULE Spec2Model ----
(***************************************************************************)
(* Model of utils/aiService.js (class AIService) of aihealthcoach, with    *)
(* the profile ranges of utils/validation.js (validateProfile).            *)
(*                                                                         *)
(* AIService is a stateless service object: every static method is a pure  *)
(* function of its arguments.  The state machine is a caller that is idle, *)
(* calls one method on arguments drawn from bounded sets, observes the     *)
(* outcome (a returned value or a thrown error) and returns to idle.       *)
(*                                                                         *)
(* JavaScript values:                                                      *)
(*  - an optional array or object is [def |-> BOOLEAN, ...]; def = FALSE   *)
(*    is `undefined`;                                                      *)
(*  - numbers are IEEE doubles in the source.  Here weight, height and age *)
(*    are whole numbers and energies are kept exactly, in units of 1/40000 *)
(*    kcal (BMR coefficients have three decimals, activity factors are     *)
(*    multiples of 1/40).  A double computation and the exact one round to *)
(*    the same integer unless the exact quotient is a half (invariant      *)
(*    DoublesAgree); where it is a half, the result is computed on         *)
(*    doubles, operation by operation, as the source does.  NaN is the     *)
(*    string "NaN".                                                        *)
(*                                                                         *)
(* Definitions marked "faulty variant" are not part of the model: each is  *)
(* the definition that follows it with one plausible slip, and serves to   *)
(* show that a property below depends on the modelled code.                *)
(***************************************************************************)
EXTENDS Integers, Sequences, FiniteSets, TLC

VARIABLES pc, userProfile, currentProgress, preferences, ret

vars == <<pc, userProfile, currentProgress, preferences, ret>>

(***************************************************************************)
(* Bounds of the model.                                                    *)
(***************************************************************************)
MaxGoals == 2
MaxRestrictions == 2
MaxProgress == 2

(***************************************************************************)
(* validateProfile: the documented ranges.                                 *)
(***************************************************************************)
MinAge == 13
MaxAge == 120
MinWeight == 30
MaxWeight == 300
MinHeight == 100
MaxHeight == 250
Genders == {"male", "female", "other"}
ActivityLevels == {"sedentary", "lightly_active", "moderately_active", "very_active"}

(***************************************************************************)
(* JavaScript helpers.                                                     *)
(***************************************************************************)
Undefined == [def |-> FALSE, val |-> <<>>]
Arr(s) == [def |-> TRUE, val |-> s]
NoField == [def |-> FALSE, val |-> 0]
Num(n) == [def |-> TRUE, val |-> n]
NoFlag == [def |-> FALSE, val |-> FALSE]
Flag(b) == [def |-> TRUE, val |-> b]
NoArg == "none"

Returned(v) == [status |-> "returned", value |-> v]
Threw(e) == [status |-> "threw", value |-> e]

\* Array.prototype.includes
Includes(arr, x) == \E i \in 1..Len(arr) : arr[i] = x

\* recommendations.push(item) under a condition
PushIf(cond, recommendations, item) ==
  IF cond THEN Append(recommendations, item) ELSE recommendations

SeqsUpTo(S, n) == UNION {[1..k -> S] : k \in 0..n}

\* Math.round(num / den) for den > 0: the nearest integer, halves upwards.
MathRound(num, den) == (2 * num + den) \div (2 * den)

\* Math.round(k * num / den), computed without leaving 32 bits.
MathRoundTimes(k, num, den) ==
  LET q == num \div den
      r == num % den
  IN k * q + MathRound(k * r, den)

(***************************************************************************)
(* IEEE 754 doubles.  A double is sign * m * 2^e with m a natural number   *)
(* below 2^53, kept as a sequence of limbs (least significant first) in    *)
(* base 2^15, so that every step stays within 32-bit integers.             *)
(***************************************************************************)
LimbBase == 2^15

Limb(a, i) == IF i <= Len(a) THEN a[i] ELSE 0

RECURSIVE BigNorm(_)
BigNorm(a) ==
  IF a = <<>> THEN <<>>
  ELSE IF a[Len(a)] = 0 THEN BigNorm(SubSeq(a, 1, Len(a) - 1))
  ELSE a

RECURSIVE BigFromInt(_)
BigFromInt(n) ==
  IF n = 0 THEN <<>> ELSE <<n % LimbBase>> \o BigFromInt(n \div LimbBase)

RECURSIVE BigToInt(_)
BigToInt(a) ==
  IF a = <<>> THEN 0 ELSE a[1] + LimbBase * BigToInt(Tail(a))

RECURSIVE BigAddFrom(_, _, _, _)
BigAddFrom(a, b, i, carry) ==
  IF i > Len(a) /\ i > Len(b)
  THEN (IF carry = 0 THEN <<>> ELSE <<carry>>)
  ELSE LET sum == Limb(a, i) + Limb(b, i) + carry
       IN <<sum % LimbBase>> \o BigAddFrom(a, b, i + 1, sum \div LimbBase)

BigAdd(a, b) == BigAddFrom(a, b, 1, 0)

RECURSIVE BigSubFrom(_, _, _, _)
BigSubFrom(a, b, i, borrow) ==
  IF i > Len(a)
  THEN <<>>
  ELSE LET diff == Limb(a, i) - Limb(b, i) - borrow
       IN <<diff % LimbBase>> \o BigSubFrom(a, b, i + 1, IF diff < 0 THEN 1 ELSE 0)

\* a - b for a >= b
BigSub(a, b) == BigNorm(BigSubFrom(a, b, 1, 0))

RECURSIVE BigCmpFrom(_, _, _)
BigCmpFrom(a, b, i) ==
  IF i = 0 THEN 0
  ELSE IF a[i] < b[i] THEN -1
  ELSE IF a[i] > b[i] THEN 1
  ELSE BigCmpFrom(a, b, i - 1)

\* -1, 0 or 1
BigCmp(a, b) ==
  IF Len(a) < Len(b) THEN -1
  ELSE IF Len(a) > Len(b) THEN 1
  ELSE BigCmpFrom(a, b, Len(a))

RECURSIVE BigMulSmallFrom(_, _, _, _)
BigMulSmallFrom(a, c, i, carry) ==
  IF i > Len(a)
  THEN (IF carry = 0 THEN <<>> ELSE <<carry>>)
  ELSE LET prod == a[i] * c + carry
       IN <<prod % LimbBase>> \o BigMulSmallFrom(a, c, i + 1, prod \div LimbBase)

\* a * c for 0 <= c < LimbBase
BigMulSmall(a, c) == IF c = 0 THEN <<>> ELSE BigMulSmallFrom(a, c, 1, 0)

BigShiftLimbs(a, k) == IF a = <<>> THEN <<>> ELSE [i \in 1..k |-> 0] \o a

RECURSIVE BigMulFrom(_, _, _)
BigMulFrom(a, b, j) ==
  IF j > Len(b)
  THEN <<>>
  ELSE BigAdd(BigShiftLimbs(BigMulSmall(a, b[j]), j - 1), BigMulFrom(a, b, j + 1))

BigMul(a, b) == BigMulFrom(a, b, 1)

RECURSIVE BigDivSmallFrom(_, _, _, _)
BigDivSmallFrom(a, d, i, rem) ==
  IF i = 0
  THEN [q |-> <<>>, r |-> rem]
  ELSE LET cur == rem * LimbBase + a[i]
           rest == BigDivSmallFrom(a, d, i - 1, cur % d)
       IN [q |-> Append(rest.q, cur \div d), r |-> rest.r]

\* quotient and remainder of a by d, 0 < d <= LimbBase
BigDivSmall(a, d) ==
  LET x == BigDivSmallFrom(a, d, Len(a), 0)
  IN [q |-> BigNorm(x.q), r |-> x.r]

RECURSIVE IntBitLen(_)
IntBitLen(n) == IF n = 0 THEN 0 ELSE 1 + IntBitLen(n \div 2)

BigBitLen(a) == IF a = <<>> THEN 0 ELSE (Len(a) - 1) * 15 + IntBitLen(a[Len(a)])

BigShiftLeft(a, k) == BigMulSmall(BigShiftLimbs(a, k \div 15), 2^(k % 15))

BigShiftRight(a, k) ==
  IF k \div 15 >= Len(a) THEN <<>>
  ELSE BigDivSmall(SubSeq(a, (k \div 15) + 1, Len(a)), 2^(k % 15)).q

BigIsOdd(a) == a # <<>> /\ a[1] % 2 = 1

RECURSIVE BigFromHexFrom(_, _, _)
BigFromHexFrom(digits, i, acc) ==
  IF i > Len(digits) THEN acc
  ELSE BigFromHexFrom(digits, i + 1, BigAdd(BigMulSmall(acc, 16), BigFromInt(digits[i])))

Dbl(neg, m, e) == [neg |-> neg, m |-> m, e |-> e]

\* the double written 0x<d1>.<d2 d3 ...>p<p> in hexadecimal
DHex(digits, p) ==
  Dbl(FALSE, BigFromHexFrom(digits, 1, <<>>), p - 4 * (Len(digits) - 1))

\* the double of a whole number below 2^31
DInt(n) == Dbl(n < 0, BigFromInt(IF n < 0 THEN -n ELSE n), 0)

\* the exact value sign * m * 2^e rounded to 53 significant bits, to nearest,
\* ties to even
Fl(neg, m, e) ==
  LET excess == BigBitLen(m) - 53
  IN IF excess <= 0
     THEN Dbl(neg, m, e)
     ELSE LET q == BigShiftRight(m, excess)
              rem == BigSub(m, BigShiftLeft(q, excess))
              half == BigShiftLeft(<<1>>, excess - 1)
              c == BigCmp(rem, half)
              up == c = 1 \/ (c = 0 /\ BigIsOdd(q))
          IN Dbl(neg, IF up THEN BigAdd(q, <<1>>) ELSE q, e + excess)

\* The operations below bind their operands through singleton sets, so that an
\* operand is evaluated before the operation, as in the source.

\* x * y
DMul(x, y) ==
  CHOOSE r \in {Fl(a.neg # b.neg, BigMul(a.m, b.m), a.e + b.e) : a \in {x}, b \in {y}} : TRUE

\* a + b on evaluated operands
DAddOf(a, b) ==
  LET e == IF a.e < b.e THEN a.e ELSE b.e
      ma == BigShiftLeft(a.m, a.e - e)
      mb == BigShiftLeft(b.m, b.e - e)
  IN IF a.neg = b.neg THEN Fl(a.neg, BigAdd(ma, mb), e)
     ELSE IF BigCmp(ma, mb) >= 0 THEN Fl(a.neg, BigSub(ma, mb), e)
     ELSE Fl(b.neg, BigSub(mb, ma), e)

\* x + y
DAdd(x, y) == CHOOSE r \in {DAddOf(a, b) : a \in {x}, b \in {y}} : TRUE

\* x - y
DSub(x, y) ==
  CHOOSE r \in {DAddOf(a, [b EXCEPT !.neg = ~b.neg]) : a \in {x}, b \in {y}} : TRUE

\* a / d on an evaluated operand: the quotient to at least 56 bits, with a
\* sticky bit for the remainder, then rounded
DDivIntOf(a, d) ==
  LET k == IF BigBitLen(a.m) < 72 THEN 72 - BigBitLen(a.m) ELSE 0
      n == BigDivSmall(BigShiftLeft(a.m, k), d)
      sticky == IF n.r = 0 THEN <<>> ELSE <<1>>
  IN Fl(a.neg, BigAdd(BigMulSmall(n.q, 2), sticky), a.e - k - 1)

\* x / d for a whole number 0 < d < LimbBase
DDivInt(x, d) == CHOOSE r \in {DDivIntOf(a, d) : a \in {x}} : TRUE

\* Math.round(a) on an evaluated operand
DRoundOf(a) ==
  IF a.e >= 0
  THEN (IF a.neg THEN -1 ELSE 1) * BigToInt(BigShiftLeft(a.m, a.e))
  ELSE LET half == BigShiftLeft(<<1>>, (-a.e) - 1)
           one == BigShiftLeft(<<1>>, -a.e)
       IN IF ~a.neg
          THEN BigToInt(BigShiftRight(BigAdd(a.m, half), -a.e))
          ELSE IF BigCmp(a.m, half) <= 0 THEN 0
          ELSE -BigToInt(BigShiftRight(BigAdd(BigSub(a.m, half), BigSub(one, <<1>>)), -a.e))

\* Math.round(x): the nearest whole number, halves towards +Infinity
DRound(x) == CHOOSE r \in {DRoundOf(a) : a \in {x}} : TRUE

\* the numeric literals of calculateNutritionNeeds, as doubles
Lit88_362 == DHex(<<1, 6, 1, 7, 2, 11, 0, 2, 0, 12, 4, 9, 11, 10>>, 6)
Lit13_397 == DHex(<<1, 10, 12, 11, 4, 3, 9, 5, 8, 1, 0, 6, 2, 5>>, 3)
Lit4_799 == DHex(<<1, 3, 3, 2, 2, 13, 0, 14, 5, 6, 0, 4, 1, 9>>, 2)
Lit5_677 == DHex(<<1, 6, 11, 5, 3, 15, 7, 12, 14, 13, 9, 1, 6, 8>>, 2)
Lit447_593 == DHex(<<1, 11, 15, 9, 7, 12, 14, 13, 9, 1, 6, 8, 7, 3>>, 8)
Lit9_247 == DHex(<<1, 2, 7, 14, 7, 6, 12, 8, 11, 4, 3, 9, 5, 8>>, 3)
Lit3_098 == DHex(<<1, 8, 12, 8, 11, 4, 3, 9, 5, 8, 1, 0, 6, 2>>, 1)
Lit4_330 == DHex(<<1, 1, 5, 1, 14, 11, 8, 5, 1, 14, 11, 8, 5, 2>>, 2)
Lit1_2 == DHex(<<1, 3, 3, 3, 3, 3, 3, 3, 3, 3, 3, 3, 3, 3>>, 0)
Lit1_375 == DHex(<<1, 6>>, 0)
Lit1_55 == DHex(<<1, 8, 12, 12, 12, 12, 12, 12, 12, 12, 12, 12, 12, 13>>, 0)
Lit1_725 == DHex(<<1, 11, 9, 9, 9, 9, 9, 9, 9, 9, 9, 9, 9, 10>>, 0)
Lit0_25 == DHex(<<1>>, -2)
Lit0_45 == DHex(<<1, 12, 12, 12, 12, 12, 12, 12, 12, 12, 12, 12, 12, 13>>, -2)
Lit0_30 == DHex(<<1, 3, 3, 3, 3, 3, 3, 3, 3, 3, 3, 3, 3, 3>>, -2)

(***************************************************************************)
(* calculateNutritionNeeds                                                 *)
(*                                                                         *)
(* Every quantity is computed twice: exactly, as an integer in units of    *)
(* 1/Scale kcal, and as the double of the source.  The two differ by less  *)
(* than 10^-9 kcal, so they round to the same whole number unless an exact *)
(* quotient is a half; only then (NoExactHalf fails) is the double needed, *)
(* and it decides the result.                                              *)
(***************************************************************************)
NaN == "NaN"

\* energies are integers in units of 1/Scale kcal
Scale == 1000 * 40

\* the properties an object literal inherits from Object.prototype
ObjectPrototypeKeys ==
  {"constructor", "__defineGetter__", "__defineSetter__", "hasOwnProperty",
   "__lookupGetter__", "__lookupSetter__", "isPrototypeOf",
   "propertyIsEnumerable", "toString", "valueOf", "__proto__", "toLocaleString"}

\* activityFactors[activityLevel] is an inherited function or object: truthy,
\* so || 1.2 does not apply, and bmr times it is NaN
tdeeIsNaN(p) == p.activityLevel \in ObjectPrototypeKeys

\* bmr * 1000
bmrMilli(p) ==
  IF p.gender = "male"
  THEN 88362 + (13397 * p.weight) + (4799 * p.height) - (5677 * p.age)
  ELSE 447593 + (9247 * p.weight) + (3098 * p.height) - (4330 * p.age)

\* bmr, as the double the source computes, left to right
bmrDouble(p) ==
  IF p.gender = "male"
  THEN DSub(DAdd(DAdd(Lit88_362, DMul(Lit13_397, DInt(p.weight))),
                 DMul(Lit4_799, DInt(p.height))),
            DMul(Lit5_677, DInt(p.age)))
  ELSE DSub(DAdd(DAdd(Lit447_593, DMul(Lit9_247, DInt(p.weight))),
                 DMul(Lit3_098, DInt(p.height))),
            DMul(Lit4_330, DInt(p.age)))

\* (activityFactors[activityLevel] || 1.2) * 40
activityFactor40(activityLevel) ==
  CASE activityLevel = "sedentary" -> 48
    [] activityLevel = "lightly_active" -> 55
    [] activityLevel = "moderately_active" -> 62
    [] activityLevel = "very_active" -> 69
    [] activityLevel \in ObjectPrototypeKeys -> NaN
    [] OTHER -> 48

\* activityFactors[activityLevel] || 1.2, for a level that is no inherited
\* property: the doubles of 1.2, 1.375, 1.55 and 1.725
activityFactorDouble(activityLevel) ==
  CASE activityLevel = "lightly_active" -> Lit1_375
    [] activityLevel = "moderately_active" -> Lit1_55
    [] activityLevel = "very_active" -> Lit1_725
    [] OTHER -> Lit1_2

\* faulty variant: the activity factor lookup always falls back to 1.2
tdeeSedentary(p) == IF tdeeIsNaN(p) THEN NaN ELSE bmrMilli(p) * 48

\* tdee * Scale
tdee(p) ==
  IF tdeeIsNaN(p) THEN NaN ELSE bmrMilli(p) * activityFactor40(p.activityLevel)

\* tdee as a double, when it is not NaN
tdeeDouble(p) == DMul(bmrDouble(p), activityFactorDouble(p.activityLevel))

\* faulty variant: both adjustments applied
targetCaloriesAdditive(p) ==
  IF tdeeIsNaN(p) THEN NaN
  ELSE tdee(p)
       - (IF Includes(p.fitnessGoals.val, "weight_loss") THEN 500 * Scale ELSE 0)
       + (IF Includes(p.fitnessGoals.val, "muscle_gain") THEN 300 * Scale ELSE 0)

\* targetCalories * Scale, for a defined fitnessGoals array
targetCalories(p) ==
  IF tdeeIsNaN(p) THEN NaN
  ELSE IF Includes(p.fitnessGoals.val, "weight_loss") THEN tdee(p) - 500 * Scale
  ELSE IF Includes(p.fitnessGoals.val, "muscle_gain") THEN tdee(p) + 300 * Scale
  ELSE tdee(p)

\* targetCalories as a double, when it is not NaN
targetCaloriesDouble(p) ==
  IF Includes(p.fitnessGoals.val, "weight_loss") THEN DSub(tdeeDouble(p), DInt(500))
  ELSE IF Includes(p.fitnessGoals.val, "muscle_gain") THEN DAdd(tdeeDouble(p), DInt(300))
  ELSE tdeeDouble(p)

\* Math.round(targetCalories)
dailyCaloriesOf(t) == MathRound(t, Scale)

\* Math.round(targetCalories * 0.25 / 4)
proteinOf(t) == MathRound(t, 16 * Scale)

\* Math.round(targetCalories * 0.45 / 4)
carbsOf(t) == MathRoundTimes(9, t, 80 * Scale)

\* faulty variant: fat counted at 4 kcal per gram
fatsOfPerFourKcal(t) == MathRoundTimes(3, t, 40 * Scale)

\* Math.round(targetCalories * 0.30 / 9)
fatsOf(t) == MathRound(t, 30 * Scale)

\* no rounding of the call is an exact half
NoExactHalf(t) ==
  /\ (2 * t + Scale) % (2 * Scale) # 0
  /\ (2 * t + 16 * Scale) % (32 * Scale) # 0
  /\ (2 * 9 * (t % (80 * Scale)) + 80 * Scale) % (160 * Scale) # 0
  /\ (2 * t + 30 * Scale) % (60 * Scale) # 0

\* the returned object, from the exact target
needsExact(t) ==
  [dailyCalories |-> dailyCaloriesOf(t),
   macros |-> [protein |-> proteinOf(t),
               carbs |-> carbsOf(t),
               fats |-> fatsOf(t)]]

\* the returned object, from the double target, operation by operation
needsDouble(td) ==
  [dailyCalories |-> DRound(td),
   macros |-> [protein |-> DRound(DDivInt(DMul(td, Lit0_25), 4)),
               carbs |-> DRound(DDivInt(DMul(td, Lit0_45), 4)),
               fats |-> DRound(DDivInt(DMul(td, Lit0_30), 9))]]

\* Math.round(NaN) is NaN
needsNaN ==
  [dailyCalories |-> NaN, macros |-> [protein |-> NaN, carbs |-> NaN, fats |-> NaN]]

\* fitnessGoals.includes on an undefined fitnessGoals raises
calculateNutritionNeeds(p) ==
  IF ~p.fitnessGoals.def THEN Threw("TypeError")
  ELSE IF tdeeIsNaN(p) THEN Returned(needsNaN)
  ELSE IF NoExactHalf(targetCalories(p)) THEN Returned(needsExact(targetCalories(p)))
  ELSE Returned(needsDouble(targetCaloriesDouble(p)))

(***************************************************************************)
(* The recommendation sub-generators.                                      *)
(***************************************************************************)
MotivationRec ==
  [type |-> "motivation",
   message |-> "You missed yesterday's workout. Let's get back on track with a lighter session today!",
   action |-> "Start with a 20-minute beginner workout"]

CardioRec ==
  [type |-> "cardio",
   message |-> "Add 15 minutes of HIIT training to boost fat burning",
   action |-> "Try interval running or cycling"]

StrengthRec ==
  [type |-> "strength",
   message |-> "Focus on progressive overload this week",
   action |-> "Increase weights by 5% or add 2 more reps"]

CalorieControlRec ==
  [type |-> "calorie_control",
   message |-> "You exceeded your calorie target yesterday. Let's focus on portion control today.",
   action |-> "Try using smaller plates and eating slowly"]

ProteinRec ==
  [type |-> "protein",
   message |-> "Ensure adequate protein intake with plant-based sources",
   action |-> "Include lentils, quinoa, or Greek yogurt in your meals"]

SleepRec ==
  [type |-> "sleep",
   message |-> "Quality sleep is crucial for recovery and weight management",
   action |-> "Aim for 7-9 hours of sleep tonight"]

HydrationRec ==
  [type |-> "hydration",
   message |-> "Stay hydrated to support your metabolism and workout performance",
   action |-> "Drink at least 8 glasses of water today"]

\* currentProgress && currentProgress.length > 0
hasRecentProgress(cp) == cp.def /\ Len(cp.val) > 0

\* faulty variant: !recentProgress.workoutCompleted
missedWorkoutFalsy(cp) ==
  /\ hasRecentProgress(cp)
  /\ LET recentProgress == cp.val[1]
     IN ~(recentProgress.workoutCompleted.def /\ recentProgress.workoutCompleted.val)

\* recentProgress.workoutCompleted === false
missedWorkout(cp) ==
  /\ hasRecentProgress(cp)
  /\ LET recentProgress == cp.val[1]
     IN recentProgress.workoutCompleted.def /\ recentProgress.workoutCompleted.val = FALSE

\* fitnessGoals.includes on an undefined fitnessGoals raises
generateWorkoutRecommendations(p, cp) ==
  LET r1 == PushIf(missedWorkout(cp), <<>>, MotivationRec)
  IN IF ~p.fitnessGoals.def
     THEN Threw("TypeError")
     ELSE LET r2 == PushIf(Includes(p.fitnessGoals.val, "weight_loss"), r1, CardioRec)
              r3 == PushIf(Includes(p.fitnessGoals.val, "muscle_gain"), r2, StrengthRec)
          IN Returned(r3)

\* faulty variant: >= instead of >
exceededCaloriesInclusive(cp) ==
  /\ hasRecentProgress(cp)
  /\ LET recentProgress == cp.val[1]
     IN /\ recentProgress.caloriesConsumed.def
        /\ recentProgress.targetCalories.def
        /\ 5 * recentProgress.caloriesConsumed.val >= 6 * recentProgress.targetCalories.val

\* recentProgress.caloriesConsumed > recentProgress.targetCalories * 1.2
\* (a comparison with NaN, from an undefined field, is false)
exceededCalories(cp) ==
  /\ hasRecentProgress(cp)
  /\ LET recentProgress == cp.val[1]
     IN /\ recentProgress.caloriesConsumed.def
        /\ recentProgress.targetCalories.def
        /\ 5 * recentProgress.caloriesConsumed.val > 6 * recentProgress.targetCalories.val

\* faulty variant: dietaryRestrictions.includes without the presence test
generateNutritionRecommendationsUnguarded(p, cp) ==
  LET r1 == PushIf(exceededCalories(cp), <<>>, CalorieControlRec)
  IN IF ~p.preferences.def \/ ~p.preferences.dietaryRestrictions.def
     THEN Threw("TypeError")
     ELSE Returned(PushIf(Includes(p.preferences.dietaryRestrictions.val, "vegetarian"),
                          r1, ProteinRec))

\* preferences.dietaryRestrictions on an undefined preferences raises
generateNutritionRecommendations(p, cp) ==
  LET r1 == PushIf(exceededCalories(cp), <<>>, CalorieControlRec)
  IN IF ~p.preferences.def
     THEN Threw("TypeError")
     ELSE Returned(PushIf(/\ p.preferences.dietaryRestrictions.def
                          /\ Includes(p.preferences.dietaryRestrictions.val, "vegetarian"),
                          r1, ProteinRec))

\* faulty variant: the hydration push is missing
generateLifestyleRecommendationsSleepOnly(p, cp) == <<SleepRec>>

\* two unconditional pushes; neither argument is read
generateLifestyleRecommendations(p, cp) ==
  Append(Append(<<>>, SleepRec), HydrationRec)

\* try { ... } catch (error) { throw new Error('Failed to generate AI recommendations') }
getPersonalizedRecommendations(p, cp) ==
  LET workout == generateWorkoutRecommendations(p, cp)
      nutrition == generateNutritionRecommendations(p, cp)
      lifestyle == generateLifestyleRecommendations(p, cp)
  IN IF workout.status = "threw" \/ nutrition.status = "threw"
     THEN Threw("Failed to generate AI recommendations")
     ELSE Returned([workout |-> workout.value,
                    nutrition |-> nutrition.value,
                    lifestyle |-> lifestyle])

(***************************************************************************)
(* generateMealPlan                                                        *)
(***************************************************************************)
mealDatabase ==
  [breakfast |-> <<
     [name |-> "Overnight Oats with Berries", calories |-> 350, protein |-> 15,
      carbs |-> 55, fats |-> 8,
      ingredients |-> <<"oats", "milk", "berries", "honey">>,
      prepTime |-> 5, vegan |-> FALSE, glutenFree |-> TRUE],
     [name |-> "Avocado Toast", calories |-> 320, protein |-> 12,
      carbs |-> 35, fats |-> 18,
      ingredients |-> <<"whole grain bread", "avocado", "eggs", "tomato">>,
      prepTime |-> 10, vegan |-> FALSE, glutenFree |-> FALSE] >>,
   lunch |-> <<
     [name |-> "Grilled Chicken Salad", calories |-> 450, protein |-> 35,
      carbs |-> 25, fats |-> 22,
      ingredients |-> <<"chicken breast", "mixed greens", "olive oil", "vegetables">>,
      prepTime |-> 15, vegan |-> FALSE, glutenFree |-> TRUE],
     [name |-> "Quinoa Buddha Bowl", calories |-> 420, protein |-> 18,
      carbs |-> 52, fats |-> 16,
      ingredients |-> <<"quinoa", "chickpeas", "vegetables", "tahini">>,
      prepTime |-> 20, vegan |-> TRUE, glutenFree |-> TRUE] >>,
   dinner |-> <<
     [name |-> "Baked Salmon with Vegetables", calories |-> 480, protein |-> 40,
      carbs |-> 20, fats |-> 25,
      ingredients |-> <<"salmon", "broccoli", "sweet potato", "olive oil">>,
      prepTime |-> 25, vegan |-> FALSE, glutenFree |-> TRUE] >>]

\* faulty variant: the gluten_free test is missing
keepMealVeganOnly(meal, dietaryRestrictions) ==
  IF Includes(dietaryRestrictions, "vegan") /\ ~meal.vegan THEN FALSE
  ELSE TRUE

\* the filter callback
keepMeal(meal, dietaryRestrictions) ==
  IF Includes(dietaryRestrictions, "vegan") /\ ~meal.vegan THEN FALSE
  ELSE IF Includes(dietaryRestrictions, "gluten_free") /\ ~meal.glutenFree THEN FALSE
  ELSE TRUE

\* const { dietaryRestrictions = [] } = preferences, with preferences = {} by default
restrictionsOf(prefs) ==
  IF prefs.def /\ prefs.dietaryRestrictions.def
  THEN prefs.dietaryRestrictions.val
  ELSE <<>>

\* an async method: a thrown error is a rejected promise.  cuisinePreferences
\* is destructured and never read; the computed needs are discarded.
generateMealPlan(p, prefs) ==
  LET dietaryRestrictions == restrictionsOf(prefs)
      needs == calculateNutritionNeeds(p)
  IN IF needs.status = "threw"
     THEN needs
     ELSE Returned([mealType \in DOMAIN mealDatabase |->
                      SelectSeq(mealDatabase[mealType],
                                LAMBDA meal : keepMeal(meal, dietaryRestrictions))])

(***************************************************************************)
(* The arguments the caller draws.                                         *)
(***************************************************************************)
Ages == {MinAge, 28, 32, MaxAge}
Weights == {MinWeight, 60, 75, MaxWeight}
Heights == {MinHeight, 140, 165, 175, 211, MaxHeight}

GoalNames == {"weight_loss", "muscle_gain", "endurance"}
RestrictionNames == {"vegan", "vegetarian", "gluten_free"}

GoalArrays == {Arr(s) : s \in SeqsUpTo(GoalNames, MaxGoals)}
RestrictionArrays == {Arr(s) : s \in SeqsUpTo(RestrictionNames, MaxRestrictions)}

NoPreferences == [def |-> FALSE, dietaryRestrictions |-> Undefined]
Preferences(r) == [def |-> TRUE, dietaryRestrictions |-> r]
PreferencesObjects ==
  {NoPreferences} \cup {Preferences(r) : r \in RestrictionArrays \cup {Undefined}}

\* the two users of scripts/seed.js
JohnDoe(goals, prefs) ==
  [age |-> 28, gender |-> "male", height |-> 175, weight |-> 75,
   activityLevel |-> "moderately_active", fitnessGoals |-> goals, preferences |-> prefs]
JaneSmith(goals, prefs) ==
  [age |-> 32, gender |-> "female", height |-> 165, weight |-> 60,
   activityLevel |-> "lightly_active", fitnessGoals |-> goals, preferences |-> prefs]

\* the profiles the calculator is called on: preferences are not read
CalcProfiles ==
  [age : Ages, gender : Genders, height : Heights, weight : Weights,
   activityLevel : ActivityLevels \cup {"undefined", "constructor"},
   fitnessGoals : GoalArrays \cup {Undefined},
   preferences : {Preferences(Arr(<<>>))}]

\* the profiles the whole engine and the meal planner are called on: every
\* shape of fitnessGoals and of preferences
RecProfiles ==
  {JohnDoe(g, pr) : g \in GoalArrays \cup {Undefined}, pr \in PreferencesObjects}

\* the workout sub-generator reads fitnessGoals only
WorkoutProfiles ==
  {JohnDoe(g, pr) : g \in GoalArrays \cup {Undefined},
                    pr \in {NoPreferences, Preferences(Arr(<<"vegetarian">>))}}

\* the nutrition sub-generator reads preferences only
NutritionProfiles ==
  {JohnDoe(g, pr) : g \in {Undefined, Arr(<<>>), Arr(<<"weight_loss", "muscle_gain">>)},
                    pr \in PreferencesObjects}

\* the lifestyle sub-generator reads nothing
LifestyleProfiles ==
  {JohnDoe(Arr(<<"weight_loss", "muscle_gain">>), Preferences(Arr(<<>>))),
   JaneSmith(Arr(<<"endurance", "strength">>), Preferences(Arr(<<"vegetarian">>))),
   JaneSmith(Undefined, NoPreferences)}

CaloriePairs ==
  { <<NoField, NoField>>, <<Num(2400), Num(2000)>>, <<Num(2401), Num(2000)>> }

ProgressEntries ==
  {[workoutCompleted |-> w, caloriesConsumed |-> c[1], targetCalories |-> c[2]] :
     w \in {NoFlag, Flag(TRUE), Flag(FALSE)}, c \in CaloriePairs}

ProgressLists ==
  {Undefined} \cup {Arr(s) : s \in SeqsUpTo(ProgressEntries, MaxProgress)}

(***************************************************************************)
(* The caller.                                                             *)
(***************************************************************************)
Init ==
  /\ pc = "idle"
  /\ userProfile = NoArg
  /\ currentProgress = NoArg
  /\ preferences = NoArg
  /\ ret = NoArg

CallCalculateNutritionNeeds ==
  /\ pc = "idle"
  /\ \E p \in CalcProfiles :
       /\ userProfile' = p
       /\ ret' = calculateNutritionNeeds(p)
  /\ pc' = "calculateNutritionNeeds"
  /\ UNCHANGED <<currentProgress, preferences>>

CallGenerateWorkoutRecommendations ==
  /\ pc = "idle"
  /\ \E p \in WorkoutProfiles, cp \in ProgressLists :
       /\ userProfile' = p
       /\ currentProgress' = cp
       /\ ret' = generateWorkoutRecommendations(p, cp)
  /\ pc' = "generateWorkoutRecommendations"
  /\ UNCHANGED preferences

CallGenerateNutritionRecommendations ==
  /\ pc = "idle"
  /\ \E p \in NutritionProfiles, cp \in ProgressLists :
       /\ userProfile' = p
       /\ currentProgress' = cp
       /\ ret' = generateNutritionRecommendations(p, cp)
  /\ pc' = "generateNutritionRecommendations"
  /\ UNCHANGED preferences

CallGenerateLifestyleRecommendations ==
  /\ pc = "idle"
  /\ \E p \in LifestyleProfiles, cp \in ProgressLists :
       /\ userProfile' = p
       /\ currentProgress' = cp
       /\ ret' = Returned(generateLifestyleRecommendations(p, cp))
  /\ pc' = "generateLifestyleRecommendations"
  /\ UNCHANGED preferences

CallGetPersonalizedRecommendations ==
  /\ pc = "idle"
  /\ \E p \in RecProfiles, cp \in ProgressLists :
       /\ userProfile' = p
       /\ currentProgress' = cp
       /\ ret' = getPersonalizedRecommendations(p, cp)
  /\ pc' = "getPersonalizedRecommendations"
  /\ UNCHANGED preferences

CallGenerateMealPlan ==
  /\ pc = "idle"
  /\ \E p \in RecProfiles, prefs \in PreferencesObjects :
       /\ userProfile' = p
       /\ preferences' = prefs
       /\ ret' = generateMealPlan(p, prefs)
  /\ pc' = "generateMealPlan"
  /\ UNCHANGED currentProgress

\* the caller has consumed the outcome; nothing of the call is kept
Return ==
  /\ pc # "idle"
  /\ pc' = "idle"
  /\ userProfile' = NoArg
  /\ currentProgress' = NoArg
  /\ preferences' = NoArg
  /\ ret' = NoArg

Next ==
  \/ CallCalculateNutritionNeeds
  \/ CallGenerateWorkoutRecommendations
  \/ CallGenerateNutritionRecommendations
  \/ CallGenerateLifestyleRecommendations
  \/ CallGetPersonalizedRecommendations
  \/ CallGenerateMealPlan
  \/ Return

Spec == Init /\ [][Next]_vars

(***************************************************************************)
(* Properties.                                                             *)
(***************************************************************************)
Range(f) == {f[i] : i \in DOMAIN f}
Types(recs) == [i \in 1..Len(recs) |-> recs[i].type]
Abs(x) == IF x < 0 THEN -x ELSE x
When(cond, type) == IF cond THEN <<type>> ELSE <<>>

InDocumentedRanges(p) ==
  /\ p.age \in MinAge..MaxAge
  /\ p.weight \in MinWeight..MaxWeight
  /\ p.height \in MinHeight..MaxHeight
  /\ p.gender \in Genders
  /\ p.activityLevel \in ActivityLevels
  /\ p.fitnessGoals.def

Calculated ==
  /\ pc = "calculateNutritionNeeds"
  /\ InDocumentedRanges(userProfile)
  /\ ret.status = "returned"

\* 4*protein + 4*carbs + 9*fats - dailyCalories of the returned targets
MacroKcalGap ==
  LET m == ret.value.macros
  IN 4 * m.protein + 4 * m.carbs + 9 * m.fats - ret.value.dailyCalories

\* each macro is the nearest integer to its share of the unrounded target:
\* |16 protein - t| <= 8, |80 carbs - 9 t| <= 40, |30 fats - t| <= 15 (kcal)
MacrosRoundedIndependently ==
  LET t == targetCalories(userProfile)
      whole == t \div Scale
      part == t % Scale
      m == ret.value.macros
  IN /\ Abs((16 * m.protein - whole) * Scale - part) <= 8 * Scale
     /\ Abs((80 * m.carbs - 9 * whole) * Scale - 9 * part) <= 40 * Scale
     /\ Abs((30 * m.fats - whole) * Scale - part) <= 15 * Scale

\* Where no exact quotient is a half, the exact arithmetic and the doubles of
\* the source give the same whole numbers.
DoublesAgree ==
  (/\ pc = "calculateNutritionNeeds"
   /\ userProfile.fitnessGoals.def
   /\ ~tdeeIsNaN(userProfile)
   /\ NoExactHalf(targetCalories(userProfile)))
    => needsExact(targetCalories(userProfile))
         = needsDouble(targetCaloriesDouble(userProfile))

\* A drawn profile whose exact target is a half (6055.5 kcal) and whose double
\* lies below it: Math.round gives 6055.
HalfDecidedByDouble ==
  /\ Calculated
  /\ ~NoExactHalf(targetCalories(userProfile))
  /\ dailyCaloriesOf(targetCalories(userProfile)) = 6056
  /\ ret.value.dailyCalories = 6055

\* C1: for every profile whose fitnessGoals is undefined,
\* getPersonalizedRecommendations does not fail and returns a workout sequence
\* with no cardio and no strength recommendation.
C1_AbsentGoalsTreatedAsEmpty ==
  (pc = "getPersonalizedRecommendations" /\ ~userProfile.fitnessGoals.def)
    => /\ ret.status = "returned"
       /\ Range(Types(ret.value.workout)) \cap {"cardio", "strength"} = {}

\* C2: for every profile within the documented ranges, calculateNutritionNeeds
\* returns a dailyCalories strictly greater than 0.
C2_DailyCaloriesPositive ==
  Calculated => ret.value.dailyCalories > 0

\* C3 as stated: for every profile within the documented ranges the macros,
\* each rounded independently from the unrounded target, are within 3 kcal of
\* dailyCalories.
C3_MacroSlack3 ==
  Calculated => /\ MacrosRoundedIndependently
                /\ Abs(MacroKcalGap) <= 3

\* C3 amended: for every profile within the documented ranges the macros,
\* each rounded independently from the unrounded target, are within 7 kcal of
\* dailyCalories.
C3_MacroSlack7 ==
  Calculated => /\ MacrosRoundedIndependently
                /\ Abs(MacroKcalGap) <= 7

C3_Witness ==
  /\ Calculated
  /\ MacroKcalGap = 7

IsJohnDoeExample ==
  /\ pc = "calculateNutritionNeeds"
  /\ userProfile.gender = "male"
  /\ userProfile.weight = 75
  /\ userProfile.height = 175
  /\ userProfile.age = 28
  /\ userProfile.activityLevel = "moderately_active"
  /\ userProfile.fitnessGoals = Arr(<<"weight_loss", "muscle_gain">>)

\* C4 as stated: the example profile (male, 75 kg, 175 cm, 28, moderately_active,
\* [weight_loss, muscle_gain]) gets dailyCalories 2178, protein 136, carbs 245,
\* fats 73.
C4_Example2178 ==
  IsJohnDoeExample =>
    ret = Returned([dailyCalories |-> 2178,
                    macros |-> [protein |-> 136, carbs |-> 245, fats |-> 73]])

\* C4 amended: the example profile gets dailyCalories 2250, protein 141,
\* carbs 253, fats 75.
C4_Example2250 ==
  IsJohnDoeExample =>
    ret = Returned([dailyCalories |-> 2250,
                    macros |-> [protein |-> 141, carbs |-> 253, fats |-> 75]])

C4_Witness ==
  /\ IsJohnDoeExample
  /\ ret.status = "returned"

\* C5: the goal adjustment is first-match: -500 when weight_loss is a goal
\* (with or without muscle_gain), +300 when muscle_gain is a goal and
\* weight_loss is not, none otherwise; both goals give the targets of
\* weight_loss alone.
C5_FirstMatchAdjustment ==
  (pc = "calculateNutritionNeeds" /\ userProfile.fitnessGoals.def) =>
    LET goals == Range(userProfile.fitnessGoals.val)
        adjustment == IF "weight_loss" \in goals THEN -500
                      ELSE IF "muscle_gain" \in goals THEN 300
                      ELSE 0
        t == tdee(userProfile) + adjustment * Scale
        td == IF adjustment = 0 THEN tdeeDouble(userProfile)
              ELSE DAdd(tdeeDouble(userProfile), DInt(adjustment))
        alone == [userProfile EXCEPT !.fitnessGoals = Arr(<<"weight_loss">>)]
    IN /\ ret.status = "returned"
       /\ ret.value = IF tdeeIsNaN(userProfile) THEN needsNaN
                      ELSE IF NoExactHalf(t) THEN needsExact(t)
                      ELSE needsDouble(td)
       /\ {"weight_loss", "muscle_gain"} \subseteq goals
            => ret = calculateNutritionNeeds(alone)

C5_Witness ==
  /\ pc = "calculateNutritionNeeds"
  /\ userProfile.fitnessGoals = Arr(<<"muscle_gain", "weight_loss">>)
  /\ ret.status = "returned"
  /\ ret.value.dailyCalories = dailyCaloriesOf(tdee(userProfile) - 500 * Scale)

Requested(name) ==
  /\ preferences.def
  /\ preferences.dietaryRestrictions.def
  /\ name \in Range(preferences.dietaryRestrictions.val)

Eligible(meal) ==
  /\ ~(Requested("vegan") /\ meal.vegan = FALSE)
  /\ ~(Requested("gluten_free") /\ meal.glutenFree = FALSE)

\* plan is catalog with exactly the eligible meals kept, in catalog order
IsEligibleSubsequence(plan, catalog) ==
  LET kept == {i \in 1..Len(catalog) : Eligible(catalog[i])}
  IN /\ Len(plan) = Cardinality(kept)
     /\ \A j \in 1..Len(plan) :
          \E i \in kept :
            /\ plan[j] = catalog[i]
            /\ Cardinality({k \in kept : k < i}) = j - 1

\* C6: generateMealPlan returns, for each of breakfast, lunch and dinner,
\* exactly the catalog's meals of the slot that pass the vegan and gluten_free
\* restrictions, in catalog order; with vegan requested no meal has vegan =
\* false, with no restriction every slot is the full catalog slot, and a slot
\* without eligible meal is an empty sequence.
C6_MealPlanFilter ==
  (pc = "generateMealPlan" /\ userProfile.fitnessGoals.def) =>
    /\ ret.status = "returned"
    /\ DOMAIN ret.value = {"breakfast", "lunch", "dinner"}
    /\ \A slot \in {"breakfast", "lunch", "dinner"} :
         /\ IsEligibleSubsequence(ret.value[slot], mealDatabase[slot])
         /\ Requested("vegan") => \A j \in 1..Len(ret.value[slot]) : ret.value[slot][j].vegan
         /\ restrictionsOf(preferences) = <<>> => ret.value[slot] = mealDatabase[slot]

C6_Witness ==
  /\ pc = "generateMealPlan"
  /\ ret.status = "returned"
  /\ Requested("vegan")
  /\ ret.value.breakfast = <<>>
  /\ Len(ret.value.lunch) = 1
  /\ ret.value.dinner = <<>>

\* C7: an absent optional input is treated as empty and never causes an error:
\* getPersonalizedRecommendations with currentProgress undefined, or with
\* preferences.dietaryRestrictions undefined, has the outcome of an empty
\* progress list, respectively an empty restriction array, and returns when
\* fitnessGoals and preferences are present; generateMealPlan without
\* preferences or without dietaryRestrictions has the outcome of an empty
\* restriction array, and returns when fitnessGoals is present.
C7_AbsentOptionalIsEmpty ==
  /\ (pc = "getPersonalizedRecommendations" /\ ~currentProgress.def) =>
       /\ ret = getPersonalizedRecommendations(userProfile, Arr(<<>>))
       /\ (userProfile.fitnessGoals.def /\ userProfile.preferences.def)
            => ret.status = "returned"
  /\ (/\ pc = "getPersonalizedRecommendations"
      /\ userProfile.preferences.def
      /\ ~userProfile.preferences.dietaryRestrictions.def) =>
       /\ ret = getPersonalizedRecommendations(
                  [userProfile EXCEPT !.preferences = Preferences(Arr(<<>>))],
                  currentProgress)
       /\ userProfile.fitnessGoals.def => ret.status = "returned"
  /\ (/\ pc = "generateMealPlan"
      /\ (~preferences.def \/ ~preferences.dietaryRestrictions.def)) =>
       /\ ret = generateMealPlan(userProfile, Preferences(Arr(<<>>)))
       /\ userProfile.fitnessGoals.def => ret.status = "returned"

C7_Witness ==
  /\ pc = "getPersonalizedRecommendations"
  /\ ~currentProgress.def
  /\ userProfile.preferences.def
  /\ ~userProfile.preferences.dietaryRestrictions.def
  /\ ret.status = "returned"
  /\ ret.value.nutrition = <<>>

\* C8: the lifestyle sequence, from generateLifestyleRecommendations and in
\* every result of getPersonalizedRecommendations, has exactly 2 entries, sleep
\* then hydration, and is the same for all inputs.
C8_LifestyleFixed ==
  LET fixed == << [type |-> "sleep",
                   message |-> "Quality sleep is crucial for recovery and weight management",
                   action |-> "Aim for 7-9 hours of sleep tonight"],
                  [type |-> "hydration",
                   message |-> "Stay hydrated to support your metabolism and workout performance",
                   action |-> "Drink at least 8 glasses of water today"] >>
  IN /\ pc = "generateLifestyleRecommendations" =>
          /\ ret.status = "returned"
          /\ Len(ret.value) = 2
          /\ Types(ret.value) = <<"sleep", "hydration">>
          /\ ret.value = fixed
     /\ (pc = "getPersonalizedRecommendations" /\ ret.status = "returned") =>
          /\ Len(ret.value.lifestyle) = 2
          /\ Types(ret.value.lifestyle) = <<"sleep", "hydration">>
          /\ ret.value.lifestyle = fixed

C8_Witness ==
  /\ pc = "getPersonalizedRecommendations"
  /\ ret.status = "returned"
  /\ ret.value.workout = <<>>
  /\ ret.value.nutrition = <<>>
  /\ Len(ret.value.lifestyle) = 2

\* C9: for every profile with a fitnessGoals array,
\* generateWorkoutRecommendations returns the subsequence of [motivation,
\* cardio, strength] with motivation iff the progress list is non-empty and its
\* first element has workoutCompleted exactly false, cardio iff weight_loss is
\* a goal, strength iff muscle_gain is a goal.
C9_WorkoutRules ==
  (pc = "generateWorkoutRecommendations" /\ userProfile.fitnessGoals.def) =>
    LET goals == Range(userProfile.fitnessGoals.val)
        motivation == /\ currentProgress.def
                      /\ currentProgress.val # <<>>
                      /\ currentProgress.val[1].workoutCompleted = Flag(FALSE)
    IN /\ ret.status = "returned"
       /\ Types(ret.value) = When(motivation, "motivation")
                               \o When("weight_loss" \in goals, "cardio")
                               \o When("muscle_gain" \in goals, "strength")

C9_Witness ==
  /\ pc = "generateWorkoutRecommendations"
  /\ currentProgress.def
  /\ Len(currentProgress.val) = 2
  /\ currentProgress.val[1].workoutCompleted = NoFlag
  /\ currentProgress.val[2].workoutCompleted = Flag(FALSE)
  /\ ret.status = "returned"
  /\ Types(ret.value) = <<"cardio", "strength">>

\* C10: for every profile with a preferences object,
\* generateNutritionRecommendations returns the subsequence of
\* [calorie_control, protein] with calorie_control iff the progress list is
\* non-empty and its first element has caloriesConsumed strictly above 1.2
\* times targetCalories, protein iff dietaryRestrictions contains vegetarian.
C10_NutritionRules ==
  (pc = "generateNutritionRecommendations" /\ userProfile.preferences.def) =>
    LET restrictions == userProfile.preferences.dietaryRestrictions
        over == /\ currentProgress.def
                /\ currentProgress.val # <<>>
                /\ LET first == currentProgress.val[1]
                   IN /\ first.caloriesConsumed.def
                      /\ first.targetCalories.def
                      /\ 10 * first.caloriesConsumed.val > 12 * first.targetCalories.val
    IN /\ ret.status = "returned"
       /\ Types(ret.value) = When(over, "calorie_control")
                               \o When(restrictions.def /\ "vegetarian" \in Range(restrictions.val),
                                       "protein")

C10_Witness ==
  /\ pc = "generateNutritionRecommendations"
  /\ currentProgress.def
  /\ Len(currentProgress.val) = 2
  /\ currentProgress.val[1].caloriesConsumed = Num(2400)
  /\ currentProgress.val[1].targetCalories = Num(2000)
  /\ currentProgress.val[2].caloriesConsumed = Num(2401)
  /\ userProfile.fitnessGoals.def
  /\ ret.status = "returned"
  /\ Types(ret.value) = <<"protein">>

====
